---- MODULE Spec2Model ----
(***************************************************************************)
(* Model of the ATM ledger & session engine of src/app.py.                 *)
(*                                                                         *)
(* The persisted JSON file (atm_data.json) is the variable `file`: a JSON  *)
(* object is a TLA+ function from keys to values, so `k \in DOMAIN file`   *)
(* is Python's `k in data` and a missing key is a KeyError.  Every request *)
(* handler is an operator from the loaded snapshot to a result record      *)
(*   [db, saved, status, message, token, remaining]                        *)
(* where `db` is the object handed to save_data when `saved` is TRUE.      *)
(* Time is counted in minutes; money in whole currency units.              *)
(***************************************************************************)
EXTENDS Integers, Sequences, FiniteSets, TLC

VARIABLES file, now, resp, cap, conc

vars == <<file, now, resp, cap, conc>>

(***************************************************************************)
(* Bounds of the model.                                                    *)
(***************************************************************************)
MaxRequests == 6
MaxTx == 3
MaxLedgerTx == 2
MaxTransferTx == 3
MaxTicks == 3
TickMinutes == 15

(***************************************************************************)
(* Program constants.                                                      *)
(***************************************************************************)
LockMinutes == 30
SessionMinutes == 30
MaxFailedAttempts == 3
DefaultDailyLimit == 5000
DefaultFastCash == 100
MaxWithdrawal == 10000
MaxDeposit == 50000
MaxTransfer == 10000
MinNameLen == 2
PinLen == 4
DayMinutes == 1440

(***************************************************************************)
(* Input domains.                                                          *)
(***************************************************************************)
StartTime == DayMinutes - LockMinutes
LastTime == StartTime + MaxTicks * TickMinutes
AccountNumbers == {"100001", "100002"}
OtherAccount == "100003"
Tokens == {"tokA", "tokB"}
None == "None"
Rank(i) == CASE i = "100001" -> 1 [] i = "100002" -> 2 [] i = "100003" -> 3
             [] i = "tokA" -> 1 [] i = "tokB" -> 2 [] OTHER -> 0
Digits == {"0", "1", "2", "3", "4", "5", "6", "7", "8", "9"}
Pin1 == <<"1", "2", "3", "4">>
Pin2 == <<"4", "3", "2", "1">>
ValidPins == {Pin1, Pin2}
RegisterPins == {Pin1, <<"1", "2", "3">>, <<"1", "2", "a", "4">>}
LoginPins == ValidPins \cup {<<>>}
NewPins == {Pin2, <<"1", "2", "3">>}
Names == {<<"A", "l", "i">>, <<" ", "B", " ">>}
InitialDeposits == {-1, 0, 7000}
Amounts == {0, 3000, 6000, 50001}
FastCashAmounts == {-100, 6000}
PartialPrefs == {[fast_cash_amount |-> a] : a \in FastCashAmounts}

(***************************************************************************)
(* JSON objects (Python dicts) as functions.                               *)
(***************************************************************************)
EmptyMap == [k \in {} |-> None]

Put(d, k, v) == [x \in DOMAIN d \cup {k} |-> IF x = k THEN v ELSE d[x]]

Del(d, k) == [x \in DOMAIN d \ {k} |-> d[x]]

Get(d, k) == IF k \in DOMAIN d THEN d[k] ELSE None

Update(d, e) == [x \in DOMAIN d \cup DOMAIN e |-> IF x \in DOMAIN e THEN e[x] ELSE d[x]]

EmptyData == [accounts |-> EmptyMap,
              transactions |-> <<>>,
              failed_attempts |-> EmptyMap,
              locked_accounts |-> EmptyMap,
              session_tokens |-> EmptyMap]

(***************************************************************************)
(* Collaborators: clock arithmetic, string helpers, PIN hashing.           *)
(***************************************************************************)
Date(t) == t \div DayMinutes

RECURSIVE LStrip(_)
LStrip(s) == IF s # <<>> /\ Head(s) = " " THEN LStrip(Tail(s)) ELSE s

RECURSIVE RStrip(_)
RStrip(s) == IF s # <<>> /\ s[Len(s)] = " " THEN RStrip(SubSeq(s, 1, Len(s) - 1)) ELSE s

Strip(s) == RStrip(LStrip(s))

IsDigit(s) == s # <<>> /\ \A i \in 1..Len(s) : s[i] \in Digits

generate_password_hash(pin) == [digest_of |-> pin]

check_password_hash(h, pin) == h = generate_password_hash(pin)

(***************************************************************************)
(* Results of a handler.                                                   *)
(***************************************************************************)
Reply(db, saved, status, message) ==
    [db |-> db, saved |-> saved, status |-> status, message |-> message,
     token |-> None, remaining |-> 0]

KeyError(db) == Reply(db, FALSE, 500, "KeyError")

NoResp == [op |-> "none", status |-> 0, message |-> "", token |-> None, remaining |-> 0]

RespOf(op, r) == [op |-> op, status |-> r.status, message |-> r.message,
                  token |-> r.token, remaining |-> r.remaining]

IsLedger(db) == DOMAIN db = DOMAIN EmptyData

(***************************************************************************)
(* check_account_lock: returns the lock verdict and the snapshot it left   *)
(* on disk.                                                                *)
(***************************************************************************)
check_account_lock_never(db, account_number, t) ==
    IF account_number \in DOMAIN db.locked_accounts
    THEN LET lock_time == db.locked_accounts[account_number] IN
         IF t + LockMinutes < lock_time
         THEN [locked |-> TRUE, remaining |-> lock_time + LockMinutes - t, db |-> db]
         ELSE [locked |-> FALSE, remaining |-> 0,
               db |-> [db EXCEPT !.locked_accounts = Del(@, account_number),
                                 !.failed_attempts = Del(@, account_number)]]
    ELSE [locked |-> FALSE, remaining |-> 0, db |-> db]

check_account_lock_keeps_count(db, account_number, t) ==
    IF account_number \in DOMAIN db.locked_accounts
    THEN LET lock_time == db.locked_accounts[account_number] IN
         IF t < lock_time + LockMinutes
         THEN [locked |-> TRUE, remaining |-> lock_time + LockMinutes - t, db |-> db]
         ELSE [locked |-> FALSE, remaining |-> 0,
               db |-> [db EXCEPT !.locked_accounts = Del(@, account_number)]]
    ELSE [locked |-> FALSE, remaining |-> 0, db |-> db]

check_account_lock(db, account_number, t) ==
    IF account_number \in DOMAIN db.locked_accounts
    THEN LET lock_time == db.locked_accounts[account_number] IN
         IF t < lock_time + LockMinutes
         THEN [locked |-> TRUE, remaining |-> lock_time + LockMinutes - t, db |-> db]
         ELSE [locked |-> FALSE, remaining |-> 0,
               db |-> [db EXCEPT !.locked_accounts = Del(@, account_number),
                                 !.failed_attempts = Del(@, account_number)]]
    ELSE [locked |-> FALSE, remaining |-> 0, db |-> db]

reset_daily_limits(db, t) ==
    [db EXCEPT !.accounts =
        [n \in DOMAIN @ |->
            IF Date(t) > Date(@[n].last_reset)
            THEN [@[n] EXCEPT !.daily_withdrawn = 0, !.last_reset = t]
            ELSE @[n]]]

generate_transaction_id(db) == Len(db.transactions) + 1

Fresh(ids, used) == {i \in ids \ used : \A j \in ids \ used : i = j \/ ~(j \in ids \ used /\ Rank(j) < Rank(i))}

generate_account_number(db) == Fresh(AccountNumbers, DOMAIN db.accounts)

generate_session_token(db) == Fresh(Tokens, DOMAIN db.session_tokens)

(***************************************************************************)
(* POST /api/register                                                      *)
(***************************************************************************)
register_unlogged(db, rawname, pin, initial_deposit, t, account_number) ==
    LET name == Strip(rawname) IN
    IF name = <<>> \/ Len(name) < MinNameLen
    THEN Reply(db, FALSE, 400, "Enter valid name (min 2 characters)")
    ELSE IF pin = <<>> \/ Len(pin) # PinLen \/ ~IsDigit(pin)
    THEN Reply(db, FALSE, 400, "PIN must be 4 digits")
    ELSE IF initial_deposit < 0
    THEN Reply(db, FALSE, 400, "Initial deposit cannot be negative")
    ELSE IF "accounts" \notin DOMAIN db
    THEN KeyError(db)
    ELSE LET account == [pin_hash |-> generate_password_hash(pin),
                         balance |-> initial_deposit,
                         name |-> name,
                         account_type |-> "Savings",
                         daily_limit |-> DefaultDailyLimit,
                         daily_withdrawn |-> 0,
                         last_reset |-> t,
                         created_at |-> t,
                         preferences |-> [fast_cash_amount |-> DefaultFastCash,
                                          receipt_enabled |-> TRUE,
                                          language |-> "en"]]
             transaction == [id |-> generate_transaction_id(db),
                             type |-> "deposit",
                             amount |-> initial_deposit,
                             timestamp |-> t,
                             balance_after |-> initial_deposit,
                             account_number |-> account_number,
                             note |-> "Initial deposit"]
             db1 == [db EXCEPT !.accounts = Put(@, account_number, account)]
             db2 == db1
         IN Reply(db2, TRUE, 200, "Account created successfully")

register(db, rawname, pin, initial_deposit, t, account_number) ==
    LET name == Strip(rawname) IN
    IF name = <<>> \/ Len(name) < MinNameLen
    THEN Reply(db, FALSE, 400, "Enter valid name (min 2 characters)")
    ELSE IF pin = <<>> \/ Len(pin) # PinLen \/ ~IsDigit(pin)
    THEN Reply(db, FALSE, 400, "PIN must be 4 digits")
    ELSE IF initial_deposit < 0
    THEN Reply(db, FALSE, 400, "Initial deposit cannot be negative")
    ELSE IF "accounts" \notin DOMAIN db
    THEN KeyError(db)
    ELSE LET account == [pin_hash |-> generate_password_hash(pin),
                         balance |-> initial_deposit,
                         name |-> name,
                         account_type |-> "Savings",
                         daily_limit |-> DefaultDailyLimit,
                         daily_withdrawn |-> 0,
                         last_reset |-> t,
                         created_at |-> t,
                         preferences |-> [fast_cash_amount |-> DefaultFastCash,
                                          receipt_enabled |-> TRUE,
                                          language |-> "en"]]
             transaction == [id |-> generate_transaction_id(db),
                             type |-> "deposit",
                             amount |-> initial_deposit,
                             timestamp |-> t,
                             balance_after |-> initial_deposit,
                             account_number |-> account_number,
                             note |-> "Initial deposit"]
             db1 == [db EXCEPT !.accounts = Put(@, account_number, account)]
             db2 == IF initial_deposit > 0
                    THEN [db1 EXCEPT !.transactions = Append(@, transaction)]
                    ELSE db1
         IN Reply(db2, TRUE, 200, "Account created successfully")

(***************************************************************************)
(* POST /api/login                                                         *)
(***************************************************************************)
login_locks_late(db, account_number, pin, t, session_token) ==
    IF account_number = "" \/ pin = <<>>
    THEN Reply(db, FALSE, 400, "Account number and PIN required")
    ELSE IF "locked_accounts" \notin DOMAIN db
    THEN KeyError(db)
    ELSE LET lock == check_account_lock(db, account_number, t)
             db_data == lock.db
             unlocked == db_data # db
         IN
         IF lock.locked
         THEN [Reply(db, FALSE, 403, "Account locked. Try again later.")
                   EXCEPT !.remaining = lock.remaining]
         ELSE IF account_number \notin DOMAIN db_data.accounts
         THEN Reply(db_data, unlocked, 404, "Account not found")
         ELSE LET account == db_data.accounts[account_number] IN
              IF check_password_hash(account.pin_hash, pin)
              THEN LET db1 == [db_data EXCEPT
                                 !.failed_attempts = Del(@, account_number),
                                 !.session_tokens = Put(@, session_token,
                                     [account_number |-> account_number,
                                      created_at |-> t,
                                      expires_at |-> t + SessionMinutes])]
                   IN [Reply(reset_daily_limits(db1, t), TRUE, 200, "ok")
                          EXCEPT !.token = session_token]
              ELSE LET count == (IF account_number \in DOMAIN db_data.failed_attempts
                                 THEN db_data.failed_attempts[account_number]
                                 ELSE 0) + 1
                       db1 == [db_data EXCEPT !.failed_attempts = Put(@, account_number, count)]
                   IN IF count > MaxFailedAttempts
                      THEN Reply([db1 EXCEPT !.locked_accounts = Put(@, account_number, t)],
                                 TRUE, 403, "Account locked due to 3 failed attempts.")
                      ELSE [Reply(db1, TRUE, 401, "Invalid PIN")
                               EXCEPT !.remaining = MaxFailedAttempts - count]

login_keeps_count(db, account_number, pin, t, session_token) ==
    IF account_number = "" \/ pin = <<>>
    THEN Reply(db, FALSE, 400, "Account number and PIN required")
    ELSE IF "locked_accounts" \notin DOMAIN db
    THEN KeyError(db)
    ELSE LET lock == check_account_lock(db, account_number, t)
             db_data == lock.db
             unlocked == db_data # db
         IN
         IF lock.locked
         THEN [Reply(db, FALSE, 403, "Account locked. Try again later.")
                   EXCEPT !.remaining = lock.remaining]
         ELSE IF account_number \notin DOMAIN db_data.accounts
         THEN Reply(db_data, unlocked, 404, "Account not found")
         ELSE LET account == db_data.accounts[account_number] IN
              IF check_password_hash(account.pin_hash, pin)
              THEN LET db1 == [db_data EXCEPT
                                 !.session_tokens = Put(@, session_token,
                                     [account_number |-> account_number,
                                      created_at |-> t,
                                      expires_at |-> t + SessionMinutes])]
                   IN [Reply(reset_daily_limits(db1, t), TRUE, 200, "ok")
                          EXCEPT !.token = session_token]
              ELSE LET count == (IF account_number \in DOMAIN db_data.failed_attempts
                                 THEN db_data.failed_attempts[account_number]
                                 ELSE 0) + 1
                       db1 == [db_data EXCEPT !.failed_attempts = Put(@, account_number, count)]
                   IN IF count >= MaxFailedAttempts
                      THEN Reply([db1 EXCEPT !.locked_accounts = Put(@, account_number, t)],
                                 TRUE, 403, "Account locked due to 3 failed attempts.")
                      ELSE [Reply(db1, TRUE, 401, "Invalid PIN")
                               EXCEPT !.remaining = MaxFailedAttempts - count]

login(db, account_number, pin, t, session_token) ==
    IF account_number = "" \/ pin = <<>>
    THEN Reply(db, FALSE, 400, "Account number and PIN required")
    ELSE IF "locked_accounts" \notin DOMAIN db
    THEN KeyError(db)
    ELSE LET lock == check_account_lock(db, account_number, t)
             db_data == lock.db
             unlocked == db_data # db
         IN
         IF lock.locked
         THEN [Reply(db, FALSE, 403, "Account locked. Try again later.")
                   EXCEPT !.remaining = lock.remaining]
         ELSE IF account_number \notin DOMAIN db_data.accounts
         THEN Reply(db_data, unlocked, 404, "Account not found")
         ELSE LET account == db_data.accounts[account_number] IN
              IF check_password_hash(account.pin_hash, pin)
              THEN LET db1 == [db_data EXCEPT
                                 !.failed_attempts = Del(@, account_number),
                                 !.session_tokens = Put(@, session_token,
                                     [account_number |-> account_number,
                                      created_at |-> t,
                                      expires_at |-> t + SessionMinutes])]
                   IN [Reply(reset_daily_limits(db1, t), TRUE, 200, "ok")
                          EXCEPT !.token = session_token]
              ELSE LET count == (IF account_number \in DOMAIN db_data.failed_attempts
                                 THEN db_data.failed_attempts[account_number]
                                 ELSE 0) + 1
                       db1 == [db_data EXCEPT !.failed_attempts = Put(@, account_number, count)]
                   IN IF count >= MaxFailedAttempts
                      THEN Reply([db1 EXCEPT !.locked_accounts = Put(@, account_number, t)],
                                 TRUE, 403, "Account locked due to 3 failed attempts.")
                      ELSE [Reply(db1, TRUE, 401, "Invalid PIN")
                               EXCEPT !.remaining = MaxFailedAttempts - count]

(***************************************************************************)
(* POST /api/logout: `data` is the request body, `db_data` the snapshot;   *)
(* the handler passes `data` to save_data.                                 *)
(***************************************************************************)
logout(db, token) ==
    LET data == [token |-> token] IN
    IF "session_tokens" \notin DOMAIN db
    THEN KeyError(db)
    ELSE IF token \in DOMAIN db.session_tokens
    THEN Reply(data, TRUE, 200, "ok")
    ELSE Reply(db, FALSE, 200, "ok")

(***************************************************************************)
(* Session lookup shared by the authenticated handlers.                    *)
(***************************************************************************)
SessionExpired(db) == Reply(db, FALSE, 401, "Session expired")

Renew(db, token, t) ==
    [db EXCEPT !.session_tokens[token].expires_at = t + SessionMinutes]

AccountOf(db, token) == db.session_tokens[token].account_number

(***************************************************************************)
(* POST /api/balance                                                       *)
(***************************************************************************)
get_balance(db, token, t) ==
    IF "session_tokens" \notin DOMAIN db
    THEN KeyError(db)
    ELSE IF token \notin DOMAIN db.session_tokens
    THEN SessionExpired(db)
    ELSE IF t > db.session_tokens[token].expires_at
    THEN SessionExpired(db)
    ELSE Reply(Renew(db, token, t), TRUE, 200, "ok")

(***************************************************************************)
(* The two refusals shared by withdraw, fast_cash and (funds only)         *)
(* transfer.                                                               *)
(***************************************************************************)
NoLimitCheck(account, amount) == FALSE

OverDailyLimit(account, amount) ==
    account.daily_withdrawn + amount > account.daily_limit

NoFundsCheck(account, amount) == FALSE

InsufficientFunds(account, amount) == amount > account.balance

(***************************************************************************)
(* POST /api/withdraw                                                      *)
(***************************************************************************)
withdraw_funds_first(db, token, amount, note, t) ==
    IF amount <= 0
    THEN Reply(db, FALSE, 400, "Invalid amount")
    ELSE IF amount > MaxWithdrawal
    THEN Reply(db, FALSE, 400, "Maximum withdrawal limit")
    ELSE IF "session_tokens" \notin DOMAIN db
    THEN KeyError(db)
    ELSE IF token \notin DOMAIN db.session_tokens
    THEN SessionExpired(db)
    ELSE LET account_number == AccountOf(db, token)
             account == db.accounts[account_number]
         IN
         IF InsufficientFunds(account, amount)
         THEN Reply(db, FALSE, 400, "Insufficient funds")
         ELSE IF OverDailyLimit(account, amount)
         THEN [Reply(db, FALSE, 400, "Daily limit exceeded")
                  EXCEPT !.remaining = account.daily_limit - account.daily_withdrawn]
         ELSE LET balance == account.balance - amount
                  transaction == [id |-> generate_transaction_id(db),
                                  type |-> "withdrawal",
                                  amount |-> amount,
                                  timestamp |-> t,
                                  balance_after |-> balance,
                                  account_number |-> account_number,
                                  note |-> note]
                  db1 == [db EXCEPT
                            !.accounts[account_number].balance = balance,
                            !.accounts[account_number].daily_withdrawn = @ + amount,
                            !.transactions = Append(@, transaction)]
              IN Reply(Renew(db1, token, t), TRUE, 200, "ok")

withdraw(db, token, amount, note, t) ==
    IF amount <= 0
    THEN Reply(db, FALSE, 400, "Invalid amount")
    ELSE IF amount > MaxWithdrawal
    THEN Reply(db, FALSE, 400, "Maximum withdrawal limit")
    ELSE IF "session_tokens" \notin DOMAIN db
    THEN KeyError(db)
    ELSE IF token \notin DOMAIN db.session_tokens
    THEN SessionExpired(db)
    ELSE LET account_number == AccountOf(db, token)
             account == db.accounts[account_number]
         IN
         IF OverDailyLimit(account, amount)
         THEN [Reply(db, FALSE, 400, "Daily limit exceeded")
                  EXCEPT !.remaining = account.daily_limit - account.daily_withdrawn]
         ELSE IF InsufficientFunds(account, amount)
         THEN Reply(db, FALSE, 400, "Insufficient funds")
         ELSE LET balance == account.balance - amount
                  transaction == [id |-> generate_transaction_id(db),
                                  type |-> "withdrawal",
                                  amount |-> amount,
                                  timestamp |-> t,
                                  balance_after |-> balance,
                                  account_number |-> account_number,
                                  note |-> note]
                  db1 == [db EXCEPT
                            !.accounts[account_number].balance = balance,
                            !.accounts[account_number].daily_withdrawn = @ + amount,
                            !.transactions = Append(@, transaction)]
              IN Reply(Renew(db1, token, t), TRUE, 200, "ok")

(***************************************************************************)
(* POST /api/deposit                                                       *)
(***************************************************************************)
deposit(db, token, amount, note, t) ==
    IF amount <= 0
    THEN Reply(db, FALSE, 400, "Invalid amount")
    ELSE IF amount > MaxDeposit
    THEN Reply(db, FALSE, 400, "Maximum deposit limit")
    ELSE IF "session_tokens" \notin DOMAIN db
    THEN KeyError(db)
    ELSE IF token \notin DOMAIN db.session_tokens
    THEN SessionExpired(db)
    ELSE LET account_number == AccountOf(db, token)
             account == db.accounts[account_number]
             balance == account.balance + amount
             transaction == [id |-> generate_transaction_id(db),
                             type |-> "deposit",
                             amount |-> amount,
                             timestamp |-> t,
                             balance_after |-> balance,
                             account_number |-> account_number,
                             note |-> note]
             db1 == [db EXCEPT
                       !.accounts[account_number].balance = balance,
                       !.transactions = Append(@, transaction)]
         IN Reply(Renew(db1, token, t), TRUE, 200, "ok")

(***************************************************************************)
(* POST /api/transfer                                                      *)
(***************************************************************************)
transfer_no_credit(db, token, to_account, amount, note, t) ==
    IF amount <= 0
    THEN Reply(db, FALSE, 400, "Invalid amount")
    ELSE IF amount > MaxTransfer
    THEN Reply(db, FALSE, 400, "Maximum transfer limit")
    ELSE IF "session_tokens" \notin DOMAIN db
    THEN KeyError(db)
    ELSE IF token \notin DOMAIN db.session_tokens
    THEN SessionExpired(db)
    ELSE LET from_account == AccountOf(db, token) IN
         IF from_account = to_account
         THEN Reply(db, FALSE, 400, "Cannot transfer to same account")
         ELSE IF to_account \notin DOMAIN db.accounts
         THEN Reply(db, FALSE, 404, "Recipient account not found")
         ELSE LET sender == db.accounts[from_account] IN
              IF InsufficientFunds(sender, amount)
              THEN Reply(db, FALSE, 400, "Insufficient funds")
              ELSE LET balance == sender.balance - amount
                       transaction == [id |-> generate_transaction_id(db),
                                       type |-> "transfer",
                                       amount |-> amount,
                                       timestamp |-> t,
                                       from_account |-> from_account,
                                       to_account |-> to_account,
                                       balance_after |-> balance,
                                       note |-> note]
                       db1 == [db EXCEPT
                                 !.accounts[from_account].balance = balance,
                                 !.accounts[to_account].balance = amount,
                                 !.transactions = Append(@, transaction)]
                   IN Reply(Renew(db1, token, t), TRUE, 200, "ok")

transfer(db, token, to_account, amount, note, t) ==
    IF amount <= 0
    THEN Reply(db, FALSE, 400, "Invalid amount")
    ELSE IF amount > MaxTransfer
    THEN Reply(db, FALSE, 400, "Maximum transfer limit")
    ELSE IF "session_tokens" \notin DOMAIN db
    THEN KeyError(db)
    ELSE IF token \notin DOMAIN db.session_tokens
    THEN SessionExpired(db)
    ELSE LET from_account == AccountOf(db, token) IN
         IF from_account = to_account
         THEN Reply(db, FALSE, 400, "Cannot transfer to same account")
         ELSE IF to_account \notin DOMAIN db.accounts
         THEN Reply(db, FALSE, 404, "Recipient account not found")
         ELSE LET sender == db.accounts[from_account] IN
              IF InsufficientFunds(sender, amount)
              THEN Reply(db, FALSE, 400, "Insufficient funds")
              ELSE LET balance == sender.balance - amount
                       transaction == [id |-> generate_transaction_id(db),
                                       type |-> "transfer",
                                       amount |-> amount,
                                       timestamp |-> t,
                                       from_account |-> from_account,
                                       to_account |-> to_account,
                                       balance_after |-> balance,
                                       note |-> note]
                       db1 == [db EXCEPT
                                 !.accounts[from_account].balance = balance,
                                 !.accounts[to_account].balance = @ + amount,
                                 !.transactions = Append(@, transaction)]
                   IN Reply(Renew(db1, token, t), TRUE, 200, "ok")

(***************************************************************************)
(* POST /api/transactions: the listing is part of the reply only; the      *)
(* persisted effect is the session renewal.                                *)
(***************************************************************************)
get_transactions(db, token, t) ==
    IF "session_tokens" \notin DOMAIN db
    THEN KeyError(db)
    ELSE IF token \notin DOMAIN db.session_tokens
    THEN SessionExpired(db)
    ELSE Reply(Renew(db, token, t), TRUE, 200, "ok")

(***************************************************************************)
(* POST /api/change-pin                                                    *)
(***************************************************************************)
change_pin_before_check(db, token, current_pin, new_pin) ==
    IF new_pin = <<>> \/ Len(new_pin) # PinLen \/ ~IsDigit(new_pin)
    THEN Reply(db, FALSE, 400, "PIN must be 4 digits")
    ELSE IF "session_tokens" \notin DOMAIN db
    THEN KeyError(db)
    ELSE IF token \notin DOMAIN db.session_tokens
    THEN SessionExpired(db)
    ELSE LET account_number == AccountOf(db, token)
             account == db.accounts[account_number]
             db1 == [db EXCEPT !.accounts[account_number].pin_hash =
                                   generate_password_hash(new_pin)]
         IN
         IF ~check_password_hash(account.pin_hash, current_pin)
         THEN Reply(db1, TRUE, 401, "Current PIN incorrect")
         ELSE Reply(db1, TRUE, 200, "PIN changed successfully")

change_pin(db, token, current_pin, new_pin) ==
    IF new_pin = <<>> \/ Len(new_pin) # PinLen \/ ~IsDigit(new_pin)
    THEN Reply(db, FALSE, 400, "PIN must be 4 digits")
    ELSE IF "session_tokens" \notin DOMAIN db
    THEN KeyError(db)
    ELSE IF token \notin DOMAIN db.session_tokens
    THEN SessionExpired(db)
    ELSE LET account_number == AccountOf(db, token)
             account == db.accounts[account_number]
         IN
         IF ~check_password_hash(account.pin_hash, current_pin)
         THEN Reply(db, FALSE, 401, "Current PIN incorrect")
         ELSE Reply([db EXCEPT !.accounts[account_number].pin_hash =
                                   generate_password_hash(new_pin)],
                    TRUE, 200, "PIN changed successfully")

(***************************************************************************)
(* POST /api/fast-cash                                                     *)
(***************************************************************************)
fast_cash(db, token, t) ==
    IF "session_tokens" \notin DOMAIN db
    THEN KeyError(db)
    ELSE IF token \notin DOMAIN db.session_tokens
    THEN SessionExpired(db)
    ELSE LET account_number == AccountOf(db, token)
             account == db.accounts[account_number]
             amount == account.preferences.fast_cash_amount
         IN
         IF InsufficientFunds(account, amount)
         THEN Reply(db, FALSE, 400, "Insufficient funds")
         ELSE IF OverDailyLimit(account, amount)
         THEN Reply(db, FALSE, 400, "Daily limit exceeded")
         ELSE LET balance == account.balance - amount
                  transaction == [id |-> generate_transaction_id(db),
                                  type |-> "fast_cash",
                                  amount |-> amount,
                                  timestamp |-> t,
                                  balance_after |-> balance,
                                  account_number |-> account_number]
                  db1 == [db EXCEPT
                            !.accounts[account_number].balance = balance,
                            !.accounts[account_number].daily_withdrawn = @ + amount,
                            !.transactions = Append(@, transaction)]
              IN Reply(Renew(db1, token, t), TRUE, 200, "ok")

(***************************************************************************)
(* POST /api/update-preferences                                            *)
(***************************************************************************)
update_preferences(db, token, preferences) ==
    IF "session_tokens" \notin DOMAIN db
    THEN KeyError(db)
    ELSE IF token \notin DOMAIN db.session_tokens
    THEN SessionExpired(db)
    ELSE LET account_number == AccountOf(db, token) IN
         Reply([db EXCEPT !.accounts[account_number].preferences =
                              Update(@, preferences)],
               TRUE, 200, "ok")

(***************************************************************************)
(* POST /api/account-info                                                  *)
(***************************************************************************)
get_account_info(db, token) ==
    IF "session_tokens" \notin DOMAIN db
    THEN KeyError(db)
    ELSE IF token \notin DOMAIN db.session_tokens
    THEN SessionExpired(db)
    ELSE Reply(db, FALSE, 200, "ok")

(***************************************************************************)
(* The sequential system: one request is served at a time.  `cap` is model *)
(* instrumentation: the number of steps left (when limited) and the        *)
(* longest transaction log explored.                                       *)
(***************************************************************************)
NoConc == <<>>

Limited(n, tx) == [limited |-> TRUE, left |-> n, tx |-> tx]

Unlimited(tx) == [limited |-> FALSE, left |-> 0, tx |-> tx]

Spend ==
    /\ cap.limited => cap.left > 0
    /\ cap' = IF cap.limited THEN [cap EXCEPT !.left = @ - 1] ELSE cap

InitWith(db, c) ==
    /\ file = db
    /\ now = StartTime
    /\ resp = NoResp
    /\ cap = c
    /\ conc = NoConc

Init == InitWith(EmptyData, Limited(MaxRequests, MaxTx))

WithinBounds(db) == IsLedger(db) => Len(db.transactions) <= cap.tx

Serve(op, r) ==
    /\ WithinBounds(r.db)
    /\ Spend
    /\ file' = IF r.saved THEN r.db ELSE file
    /\ resp' = RespOf(op, r)
    /\ UNCHANGED <<now, conc>>

Register ==
    \E name \in Names, pin \in RegisterPins, d \in InitialDeposits, n \in AccountNumbers :
        /\ IsLedger(file) => n \in generate_account_number(file)
        /\ Serve("register", register(file, name, pin, d, now, n))

LoginWith(pins) ==
    \E a \in AccountNumbers \cup {OtherAccount}, pin \in pins, tok \in Tokens :
        /\ IsLedger(file) => tok \in generate_session_token(file)
        /\ Serve("login", login(file, a, pin, now, tok))

Login == LoginWith(LoginPins)

Logout ==
    \E tok \in Tokens : Serve("logout", logout(file, tok))

GetBalance ==
    \E tok \in Tokens : Serve("balance", get_balance(file, tok, now))

Withdraw ==
    \E tok \in Tokens, a \in Amounts : Serve("withdraw", withdraw(file, tok, a, "", now))

Deposit ==
    \E tok \in Tokens, a \in Amounts : Serve("deposit", deposit(file, tok, a, "", now))

Transfer ==
    \E tok \in Tokens, to \in AccountNumbers \cup {OtherAccount}, a \in Amounts :
        Serve("transfer", transfer(file, tok, to, a, "", now))

GetTransactions ==
    \E tok \in Tokens : Serve("transactions", get_transactions(file, tok, now))

ChangePin ==
    \E tok \in Tokens, cur \in ValidPins, new \in NewPins :
        Serve("change-pin", change_pin(file, tok, cur, new))

FastCash ==
    \E tok \in Tokens : Serve("fast-cash", fast_cash(file, tok, now))

UpdatePreferences ==
    \E tok \in Tokens, p \in PartialPrefs :
        Serve("update-preferences", update_preferences(file, tok, p))

GetAccountInfo ==
    \E tok \in Tokens : Serve("account-info", get_account_info(file, tok))

Tick ==
    /\ now + TickMinutes <= LastTime
    /\ Spend
    /\ now' = now + TickMinutes
    /\ resp' = [NoResp EXCEPT !.op = "tick"]
    /\ UNCHANGED <<file, conc>>

Next ==
    \/ Register
    \/ Login
    \/ Logout
    \/ GetBalance
    \/ Withdraw
    \/ Deposit
    \/ Transfer
    \/ GetTransactions
    \/ ChangePin
    \/ FastCash
    \/ UpdatePreferences
    \/ GetAccountInfo
    \/ Tick

Spec == Init /\ [][Next]_vars

(***************************************************************************)
(* The ledger operations alone, with logins that present the registered    *)
(* PIN, explored without a step cap.                                       *)
(***************************************************************************)
InitLedger == InitWith(EmptyData, Unlimited(MaxLedgerTx))

LoginRegistered == LoginWith({Pin1})

NextLedger ==
    \/ Register
    \/ LoginRegistered
    \/ Logout
    \/ Deposit
    \/ Withdraw
    \/ Transfer
    \/ FastCash
    \/ UpdatePreferences

SpecLedger == InitLedger /\ [][NextLedger]_vars

(***************************************************************************)
(* Registration, login and the clock alone, explored without a step cap.   *)
(***************************************************************************)
InitAuth == InitWith(EmptyData, Unlimited(MaxTx))

NextAuth ==
    \/ Register
    \/ Login
    \/ Tick

SpecAuth == InitAuth /\ [][NextAuth]_vars

(***************************************************************************)
(* Three registered accounts, two of them funded: logins and transfers.    *)
(***************************************************************************)
ThreeAccounts ==
    LET d1 == register(EmptyData, <<"A", "l", "i">>, Pin1, 7000, StartTime, "100001").db
        d2 == register(d1, <<"B", "o", "b">>, Pin1, 0, StartTime, "100002").db
    IN register(d2, <<"C", "y", "d">>, Pin1, 7000, StartTime, OtherAccount).db

InitTransfer == InitWith(ThreeAccounts, Unlimited(Len(ThreeAccounts.transactions) + MaxTransferTx))

NextTransfer ==
    \/ LoginRegistered
    \/ Transfer
    \/ Deposit

SpecTransfer == InitTransfer /\ [][NextTransfer]_vars

(***************************************************************************)
(* Concurrent requests.  The server runs each request in its own thread;   *)
(* a handler first loads the whole file (ConcLoad) and later writes its    *)
(* mutated snapshot back (ConcSave), with no exclusion between the two.    *)
(* `conc` maps each thread to its request, its position and its snapshot.  *)
(***************************************************************************)
Threads == {1, 2}

ConcStart ==
    LET d1 == register(EmptyData, <<"A", "l", "i">>, Pin1, 7000, StartTime, "100001").db
        d2 == register(d1, <<"B", "o", "b">>, Pin1, 0, StartTime, "100002").db
        d3 == login(d2, "100001", Pin1, StartTime, "tokA").db
    IN login(d3, "100002", Pin1, StartTime, "tokB").db

ConcRequests ==
    {[op |-> "withdraw", token |-> "tokA", amount |-> 3000, to |-> None],
     [op |-> "deposit", token |-> "tokA", amount |-> 3000, to |-> None],
     [op |-> "deposit", token |-> "tokB", amount |-> 6000, to |-> None],
     [op |-> "transfer", token |-> "tokA", amount |-> 6000, to |-> "100002"],
     [op |-> "fast-cash", token |-> "tokA", amount |-> 0, to |-> None],
     [op |-> "balance", token |-> "tokB", amount |-> 0, to |-> None]}

Handle(req, db, t) ==
    CASE req.op = "withdraw" -> withdraw(db, req.token, req.amount, "", t)
      [] req.op = "deposit" -> deposit(db, req.token, req.amount, "", t)
      [] req.op = "transfer" -> transfer(db, req.token, req.to, req.amount, "", t)
      [] req.op = "fast-cash" -> fast_cash(db, req.token, t)
      [] req.op = "balance" -> get_balance(db, req.token, t)

Applied(db, req, t) ==
    LET r == Handle(req, db, t) IN IF r.saved THEN r.db ELSE db

InitConc ==
    /\ file = ConcStart
    /\ now = StartTime
    /\ resp = NoResp
    /\ cap = Unlimited(MaxTx)
    /\ conc \in [Threads -> {[pc |-> "start", req |-> q, snap |-> EmptyData] : q \in ConcRequests}]

ConcLoad ==
    \E p \in Threads :
        /\ conc[p].pc = "start"
        /\ conc' = [conc EXCEPT ![p].pc = "loaded", ![p].snap = file]
        /\ UNCHANGED <<file, now, resp, cap>>

ConcSave ==
    \E p \in Threads :
        /\ conc[p].pc = "loaded"
        /\ LET r == Handle(conc[p].req, conc[p].snap, now) IN
               /\ file' = IF r.saved THEN r.db ELSE file
               /\ resp' = RespOf(conc[p].req.op, r)
        /\ conc' = [conc EXCEPT ![p].pc = "done", ![p].snap = EmptyData]
        /\ UNCHANGED <<now, cap>>

NextConc ==
    \/ ConcLoad
    \/ ConcSave

SpecConc == InitConc /\ [][NextConc]_vars

TypeOK ==
    /\ now \in StartTime..LastTime
    /\ IsLedger(file) \/ DOMAIN file = {"token"}

(***************************************************************************)
(* Properties.                                                             *)
(***************************************************************************)
Accounts == IF IsLedger(file) THEN DOMAIN file.accounts ELSE {}

Logged(types) ==
    IsLedger(file) /\ \E i \in 1..Len(file.transactions) : file.transactions[i].type \in types

Said(op, status, message) ==
    resp.op = op /\ resp.status = status /\ resp.message = message

(* C1: in every reachable state of the ledger operations (register, login, *)
(* logout, deposit, withdraw, transfer, fastCash, updatePreferences) every *)
(* account's balance is >= 0.                                              *)
C1_BalanceNonNegative ==
    \A a \in Accounts : file.accounts[a].balance >= 0

(* A debit has been logged and a later transfer was refused for lack of    *)
(* funds.                                                                  *)
C1_Witness ==
    /\ Logged({"withdrawal", "transfer", "fast_cash"})
    /\ Said("transfer", 400, "Insufficient funds")

(* C2: in every reachable state every account's daily_withdrawn is at most *)
(* its daily_limit, also after updatePreferences changed fast_cash_amount  *)
(* and fastCash ran.                                                       *)
C2_DailyWithinLimit ==
    \A a \in Accounts : file.accounts[a].daily_withdrawn <= file.accounts[a].daily_limit

(* fastCash ran with a fast_cash_amount that updatePreferences raised over *)
(* the daily limit, and was refused.                                       *)
C2_Witness ==
    /\ Said("fast-cash", 400, "Daily limit exceeded")
    /\ \E a \in Accounts : file.accounts[a].preferences.fast_cash_amount > file.accounts[a].daily_limit

(* C3: when requests run concurrently with their load and save steps       *)
(* interleaved, the final persisted state is the result of running them in *)
(* some serial order.                                                      *)
C3_Serializable ==
    (\A p \in Threads : conc[p].pc = "done") =>
        \E p \in Threads : \E q \in Threads \ {p} :
            file = Applied(Applied(ConcStart, conc[p].req, now), conc[q].req, now)

(* C4: a successful transfer of X from A to a different account B lowers    *)
(* balance(A) by X, raises balance(B) by X, keeps balance(A)+balance(B) and *)
(* every other balance, and appends exactly one transaction carrying both   *)
(* account references and A's resulting balance.                            *)
C4_TransferConserves ==
    \A tok \in Tokens, B \in AccountNumbers \cup {OtherAccount}, X \in Amounts :
        LET r == transfer(file, tok, B, X, "", now) IN
        r.status = 200 =>
            LET A == AccountOf(file, tok)
                before == file.accounts
                after == r.db.accounts
                log == r.db.transactions
                tx == log[Len(log)]
            IN /\ r.saved
               /\ A # B
               /\ DOMAIN after = DOMAIN before
               /\ after[A].balance = before[A].balance - X
               /\ after[B].balance = before[B].balance + X
               /\ after[A].balance + after[B].balance = before[A].balance + before[B].balance
               /\ \A c \in DOMAIN before \ {A, B} : after[c].balance = before[c].balance
               /\ log = Append(file.transactions, tx)
               /\ tx.type = "transfer"
               /\ tx.from_account = A
               /\ tx.to_account = B
               /\ tx.amount = X
               /\ tx.balance_after = after[A].balance

(* A transfer has just succeeded between two of three accounts, the        *)
(* recipient holding money of its own before it.                           *)
C4_Witness ==
    /\ Said("transfer", 200, "ok")
    /\ Cardinality(Accounts) = 3
    /\ LET tx == file.transactions[Len(file.transactions)] IN
           /\ tx.type = "transfer"
           /\ file.accounts[tx.to_account].balance > tx.amount

ValidRequests(tok) ==
    {get_balance(file, tok, now),
     get_transactions(file, tok, now),
     fast_cash(file, tok, now),
     get_account_info(file, tok)}
    \cup {withdraw(file, tok, 3000, "", now), deposit(file, tok, 3000, "", now)}
    \cup {transfer(file, tok, b, 3000, "", now) : b \in AccountNumbers}
    \cup {change_pin(file, tok, cur, Pin2) : cur \in ValidPins}
    \cup {update_preferences(file, tok, p) : p \in PartialPrefs}

(* C5: a session is usable iff it exists and now < expires_at: every        *)
(* authenticated operation called with a token whose expiry time has been   *)
(* reached fails with "Session expired" and saves nothing.                  *)
C5_ExpiredSessionRejected ==
    IsLedger(file) =>
        \A tok \in DOMAIN file.session_tokens :
            now >= file.session_tokens[tok].expires_at =>
                \A r \in ValidRequests(tok) :
                    r.status = 401 /\ r.message = "Session expired" /\ ~r.saved

LockedNow(a) ==
    /\ IsLedger(file)
    /\ a \in DOMAIN file.locked_accounts
    /\ now < file.locked_accounts[a] + LockMinutes

LockElapsed(a) ==
    /\ IsLedger(file)
    /\ a \in DOMAIN file.locked_accounts
    /\ now >= file.locked_accounts[a] + LockMinutes

(* C6: while fewer than 30 minutes have passed since an account was locked  *)
(* every login attempt on it, with the right or a wrong PIN, fails as       *)
(* locked, issues no session and changes neither the failed-attempt counter *)
(* nor the lock timestamp.                                                  *)
C6_LockedRejects ==
    \A a \in Accounts :
        LockedNow(a) =>
            \A pin \in ValidPins, tok \in Tokens :
                LET r == login(file, a, pin, now, tok) IN
                /\ r.status = 403
                /\ r.token = None
                /\ ~r.saved
                /\ r.db = file

(* A login has just been refused because of an existing lock that is still *)
(* running, on an account whose counter stands at 3.                       *)
C6_Witness ==
    /\ Said("login", 403, "Account locked. Try again later.")
    /\ \E a \in Accounts : /\ LockedNow(a)
                            /\ a \in DOMAIN file.failed_attempts
                            /\ file.failed_attempts[a] = MaxFailedAttempts

(* C7: once 30 minutes have passed since the lock, the next login clears    *)
(* the lock record and the counter before checking the PIN: the right PIN   *)
(* succeeds and issues a session, a wrong PIN is the first failure with 2   *)
(* attempts remaining and does not lock again.                              *)
C7_ElapsedLockCleared ==
    \A a \in Accounts :
        LockElapsed(a) =>
            \A pin \in ValidPins, tok \in generate_session_token(file) :
                LET r == login(file, a, pin, now, tok) IN
                /\ r.saved
                /\ a \notin DOMAIN r.db.locked_accounts
                /\ IF check_password_hash(file.accounts[a].pin_hash, pin)
                   THEN /\ r.status = 200
                        /\ r.token = tok
                        /\ tok \in DOMAIN r.db.session_tokens
                        /\ r.db.session_tokens[tok].account_number = a
                        /\ a \notin DOMAIN r.db.failed_attempts
                   ELSE /\ r.status = 401
                        /\ r.remaining = MaxFailedAttempts - 1
                        /\ r.token = None
                        /\ r.db.failed_attempts[a] = 1

(* An account carries a lock older than 30 minutes and a session token is  *)
(* still free for the login that follows.                                  *)
C7_Witness ==
    \E a \in Accounts : LockElapsed(a) /\ generate_session_token(file) # {}

AfterLogout(tok) ==
    LET r == logout(file, tok) IN IF r.saved THEN r.db ELSE file

(* C8: after logout(token) of an existing session the session is removed    *)
(* from the persisted state, the token resolves to no account in a later    *)
(* operation, and logout with an unknown token succeeds.                    *)
C8_LogoutRemovesSession ==
    \A tok \in Tokens :
        /\ (IsLedger(file) /\ tok \in DOMAIN file.session_tokens) =>
               /\ logout(file, tok).status = 200
               /\ "session_tokens" \in DOMAIN AfterLogout(tok)
               /\ tok \notin DOMAIN AfterLogout(tok).session_tokens
               /\ get_account_info(AfterLogout(tok), tok).status = 401
        /\ (IsLedger(file) /\ tok \notin DOMAIN file.session_tokens) =>
               logout(file, tok).status = 200

(* C9: logout is idempotent: calling logout(token) twice in a row succeeds  *)
(* both times and leaves the persisted state that one call leaves.          *)
C9_LogoutIdempotent ==
    IsLedger(file) =>
        \A tok \in Tokens :
            LET once == AfterLogout(tok)
                r2 == logout(once, tok)
                twice == IF r2.saved THEN r2.db ELSE once
            IN /\ logout(file, tok).status = 200
               /\ r2.status = 200
               /\ twice = once

LedgerRequests(tok) ==
    {fast_cash(file, tok, now)}
    \cup {withdraw(file, tok, x, "", now) : x \in Amounts}
    \cup {deposit(file, tok, x, "", now) : x \in Amounts}
    \cup {transfer(file, tok, b, x, "", now) : b \in AccountNumbers \cup {OtherAccount}, x \in Amounts}
    \cup {change_pin(file, tok, cur, new) : cur \in ValidPins, new \in NewPins}

(* C10: a ledger operation (withdraw, deposit, transfer, fastCash,          *)
(* changePin) that returns an error leaves the whole persisted state as it  *)
(* was before the call.                                                     *)
C10_ErrorsChangeNothing ==
    \A tok \in Tokens :
        \A r \in LedgerRequests(tok) :
            r.status # 200 => ~r.saved /\ r.db = file

(* A withdrawal has just been refused over the daily limit on an account    *)
(* that had already withdrawn money that day.                               *)
C10_Witness ==
    /\ Said("withdraw", 400, "Daily limit exceeded")
    /\ \E a \in Accounts : /\ file.accounts[a].daily_withdrawn > 0
                            /\ file.accounts[a].balance > 0

Sessions == IF IsLedger(file) THEN DOMAIN file.session_tokens ELSE {}

Usable(tok) == tok \in Sessions /\ now < file.session_tokens[tok].expires_at

After(r) == IF r.saved THEN r.db ELSE file

(* C11: whenever withdraw or fastCash runs on a date later than the         *)
(* account's last_reset date, daily_withdrawn counts as 0 and last_reset    *)
(* becomes now before the daily-limit check, whether or not a login has     *)
(* happened since the date changed: an amount within the daily limit and    *)
(* the balance goes through and leaves daily_withdrawn equal to the amount. *)
C11_ResetOnFirstAccess ==
    \A tok \in Sessions :
        LET a == AccountOf(file, tok)
            account == file.accounts[a]
            f == account.preferences.fast_cash_amount
        IN
        Date(now) > Date(account.last_reset) =>
            /\ \A x \in Amounts :
                   (0 < x /\ x <= MaxWithdrawal /\ x <= account.daily_limit /\ x <= account.balance) =>
                       LET r == withdraw(file, tok, x, "", now) IN
                       /\ r.status = 200
                       /\ r.db.accounts[a].daily_withdrawn = x
                       /\ r.db.accounts[a].last_reset = now
            /\ (0 < f /\ f <= account.daily_limit /\ f <= account.balance) =>
                   LET r == fast_cash(file, tok, now) IN
                   /\ r.status = 200
                   /\ r.db.accounts[a].daily_withdrawn = f
                   /\ r.db.accounts[a].last_reset = now

(* C12: with a usable session, withdraw(amount) succeeds iff                *)
(* 0 < amount <= 10000, daily_withdrawn + amount <= daily_limit and         *)
(* amount <= balance; on success the balance falls by amount,               *)
(* daily_withdrawn rises by amount and exactly one withdrawal transaction   *)
(* is appended whose balance_after is the new balance; when the daily-limit *)
(* check and the balance check both fail the error is the daily-limit one.  *)
(* daily_withdrawn, daily_limit and balance are the persisted values.       *)
C12_WithdrawContract ==
    \A tok \in Tokens :
        Usable(tok) =>
            \A amount \in Amounts \cup {-1, 1, MaxWithdrawal, MaxWithdrawal + 1} :
                LET a == AccountOf(file, tok)
                    account == file.accounts[a]
                    r == withdraw(file, tok, amount, "", now)
                    log == r.db.transactions
                    tx == log[Len(log)]
                    overLimit == account.daily_withdrawn + amount > account.daily_limit
                    overFunds == amount > account.balance
                IN
                /\ r.status = 200 <=>
                       (0 < amount /\ amount <= MaxWithdrawal /\ ~overLimit /\ ~overFunds)
                /\ r.status = 200 =>
                       /\ r.saved
                       /\ r.db.accounts[a].balance = account.balance - amount
                       /\ r.db.accounts[a].daily_withdrawn = account.daily_withdrawn + amount
                       /\ log = Append(file.transactions, tx)
                       /\ tx.type = "withdrawal"
                       /\ tx.amount = amount
                       /\ tx.account_number = a
                       /\ tx.balance_after = r.db.accounts[a].balance
                /\ (0 < amount /\ amount <= MaxWithdrawal /\ overLimit /\ overFunds) =>
                       r.message = "Daily limit exceeded"
                /\ (0 < amount /\ amount <= MaxWithdrawal /\ ~overLimit /\ overFunds) =>
                       r.message = "Insufficient funds"

(* A withdrawal has been logged, and a later withdraw was refused over the  *)
(* daily limit for an amount that also exceeds every balance (the amount is *)
(* above the remaining allowance reported, which no balance exceeds).       *)
C12_Witness ==
    /\ Said("withdraw", 400, "Daily limit exceeded")
    /\ Logged({"withdrawal"})
    /\ \A a \in Accounts : file.accounts[a].balance <= resp.remaining

(* C13: every successful authenticated operation (getBalance, withdraw,     *)
(* deposit, transfer, listTransactions, changePin, fastCash,                *)
(* updatePreferences, getAccountInfo) leaves the session's expires_at at    *)
(* now + 30 minutes.                                                        *)
C13_SlidingRenewal ==
    \A tok \in Sessions :
        \A r \in ValidRequests(tok) :
            r.status = 200 =>
                After(r).session_tokens[tok].expires_at = now + SessionMinutes

RECURSIVE Net(_, _)
Net(log, a) ==
    IF log = <<>>
    THEN 0
    ELSE LET tx == log[Len(log)] IN
         Net(SubSeq(log, 1, Len(log) - 1), a)
         + CASE tx.type = "deposit" /\ tx.account_number = a -> tx.amount
             [] tx.type \in {"withdrawal", "fast_cash"} /\ tx.account_number = a -> 0 - tx.amount
             [] tx.type = "transfer" ->
                    (IF tx.to_account = a THEN tx.amount ELSE 0)
                    - (IF tx.from_account = a THEN tx.amount ELSE 0)
             [] OTHER -> 0

RECURSIVE NetCash(_)
NetCash(log) ==
    IF log = <<>>
    THEN 0
    ELSE LET tx == log[Len(log)] IN
         NetCash(SubSeq(log, 1, Len(log) - 1))
         + CASE tx.type = "deposit" -> tx.amount
             [] tx.type \in {"withdrawal", "fast_cash"} -> 0 - tx.amount
             [] OTHER -> 0

RECURSIVE TotalBalance(_, _)
TotalBalance(accounts, S) ==
    IF S = {}
    THEN 0
    ELSE LET a == CHOOSE x \in S : TRUE IN
         accounts[a].balance + TotalBalance(accounts, S \ {a})

(* C14: in every reachable state each account's balance equals its logged  *)
(* deposits (the initial deposit included) plus incoming transfers minus    *)
(* its logged withdrawals, fast-cash withdrawals and outgoing transfers,    *)
(* and the total of all balances equals the logged deposits minus the       *)
(* logged withdrawals and fast-cash amounts.                                *)
C14_HistoryJustifiesBalances ==
    /\ \A a \in Accounts : file.accounts[a].balance = Net(file.transactions, a)
    /\ IsLedger(file) =>
           TotalBalance(file.accounts, DOMAIN file.accounts) = NetCash(file.transactions)

(* Two accounts hold money after an initial deposit and a transfer between *)
(* them were logged.                                                       *)
C14_Witness ==
    /\ Logged({"deposit"})
    /\ Logged({"transfer"})
    /\ \E a \in Accounts : \E b \in Accounts \ {a} :
           file.accounts[a].balance > 0 /\ file.accounts[b].balance > 0

IsPrefix(s, t) == Len(s) <= Len(t) /\ SubSeq(t, 1, Len(s)) = s

(* C15: the transaction log is append-only: over every step the log before *)
(* the operation is a prefix of the log after it.                          *)
C15_LogAppendOnly ==
    [][IsLedger(file) =>
          /\ "transactions" \in DOMAIN file'
          /\ IsPrefix(file.transactions, file'.transactions)]_vars

LockedIn(db, a, t) ==
    /\ IsLedger(db)
    /\ a \in DOMAIN db.locked_accounts
    /\ t < db.locked_accounts[a] + LockMinutes

(* C16: in every reachable state an account has a lock record exactly when *)
(* its failed-attempt counter stands at 3, and no counter exceeds 3; a     *)
(* login is refused on account of an existing lock iff the record exists   *)
(* and fewer than 30 minutes have passed since the lock time, and a login  *)
(* is answered "locked" iff the state it leaves holds such a record.       *)
C16_LockIffThreeFailures ==
    \A a \in AccountNumbers \cup {OtherAccount} :
        /\ IsLedger(file) =>
               /\ a \in DOMAIN file.locked_accounts <=>
                      (a \in DOMAIN file.failed_attempts
                       /\ file.failed_attempts[a] = MaxFailedAttempts)
               /\ a \in DOMAIN file.failed_attempts =>
                      file.failed_attempts[a] \in 1..MaxFailedAttempts
        /\ \A pin \in ValidPins, tok \in Tokens :
               LET r == login(file, a, pin, now, tok) IN
               /\ (r.status = 403 /\ r.message = "Account locked. Try again later.")
                      <=> LockedIn(file, a, now)
               /\ r.status = 403 <=> LockedIn(After(r), a, now)

(* A third failed attempt has just locked one account while another one    *)
(* carries one or two failures and no lock.                                 *)
C16_Witness ==
    /\ Said("login", 403, "Account locked due to 3 failed attempts.")
    /\ \E a \in Accounts : \E b \in Accounts \ {a} :
           /\ LockedNow(a)
           /\ file.failed_attempts[a] = MaxFailedAttempts
           /\ b \in DOMAIN file.failed_attempts
           /\ file.failed_attempts[b] < MaxFailedAttempts
           /\ b \notin DOMAIN file.locked_accounts

(* C17: every transaction in the log (deposit, withdrawal, transfer,        *)
(* fast_cash) has amount > 0, also when updatePreferences changed           *)
(* fast_cash_amount before a fastCash.                                      *)
C17_AmountsPositive ==
    IsLedger(file) =>
        \A i \in 1..Len(file.transactions) : file.transactions[i].amount > 0

FailedCount(db, a) ==
    IF a \in DOMAIN db.failed_attempts THEN db.failed_attempts[a] ELSE 0

WrongPins(a) == {pin \in ValidPins : ~check_password_hash(file.accounts[a].pin_hash, pin)}

RightPins(a) == {pin \in ValidPins : check_password_hash(file.accounts[a].pin_hash, pin)}

(* C18: the failed-attempt counter counts consecutive failures only: on an  *)
(* account that is not locked a successful login clears the counter, a      *)
(* failed one raises it by one and, while the new count is below 3, reports *)
(* attemptsRemaining = 3 - count without locking; two failures, a success   *)
(* and two more failures leave the account unlocked with counter 2.         *)
C18_ConsecutiveFailures ==
    \A a \in Accounts :
        ~LockedNow(a) =>
            LET count == IF LockElapsed(a) THEN 0 ELSE FailedCount(file, a) IN
            /\ \A pin \in RightPins(a), tok \in Tokens :
                   LET r == login(file, a, pin, now, tok) IN
                   /\ r.status = 200
                   /\ a \notin DOMAIN r.db.failed_attempts
                   /\ a \notin DOMAIN r.db.locked_accounts
            /\ \A pin \in WrongPins(a), tok \in Tokens :
                   LET r == login(file, a, pin, now, tok) IN
                   /\ r.saved
                   /\ r.db.failed_attempts[a] = count + 1
                   /\ count + 1 < MaxFailedAttempts =>
                          /\ r.status = 401
                          /\ r.remaining = MaxFailedAttempts - (count + 1)
                          /\ a \notin DOMAIN r.db.locked_accounts
            /\ count = 0 =>
                   \A wrong \in WrongPins(a), right \in RightPins(a), tok \in Tokens :
                       LET d1 == login(file, a, wrong, now, tok).db
                           d2 == login(d1, a, wrong, now, tok).db
                           ok == login(d2, a, right, now, tok)
                           d4 == login(ok.db, a, wrong, now, tok).db
                           d5 == login(d4, a, wrong, now, tok).db
                       IN /\ FailedCount(d2, a) = 2
                          /\ ok.status = 200
                          /\ FailedCount(d5, a) = 2
                          /\ a \notin DOMAIN d5.locked_accounts

(* An account that has logged in successfully (it holds a session) carries *)
(* two failed attempts, is not locked, and the last reply reported one      *)
(* attempt remaining.                                                       *)
C18_Witness ==
    /\ Said("login", 401, "Invalid PIN")
    /\ resp.remaining = 1
    /\ \E tok \in Sessions :
           LET a == AccountOf(file, tok) IN
           /\ FailedCount(file, a) = 2
           /\ a \notin DOMAIN file.locked_accounts

(* C19: fastCash applies the same daily-limit and balance checks as         *)
(* withdraw: for a fast_cash_amount f that passes withdraw's amount-range   *)
(* validation, fastCash yields the same outcome (success, daily limit       *)
(* exceeded or insufficient funds) and the same accounts as withdraw(f).    *)
C19_FastCashAsWithdraw ==
    \A tok \in Sessions :
        LET f == file.accounts[AccountOf(file, tok)].preferences.fast_cash_amount
            fc == fast_cash(file, tok, now)
            w == withdraw(file, tok, f, "", now)
        IN (0 < f /\ f <= MaxWithdrawal) =>
               /\ fc.status = w.status
               /\ fc.message = w.message
               /\ After(fc).accounts = After(w).accounts

(* C20: logout changes nothing but the revoked session: the accounts, the  *)
(* transaction log, the failed-attempt counters, the lock records and      *)
(* every other session are what they were before the call, and operations  *)
(* on the other sessions still succeed.                                    *)
C20_LogoutFrame ==
    \A tok \in Sessions :
        LET after == AfterLogout(tok) IN
        /\ IsLedger(after)
        /\ after.accounts = file.accounts
        /\ after.transactions = file.transactions
        /\ after.failed_attempts = file.failed_attempts
        /\ after.locked_accounts = file.locked_accounts
        /\ after.session_tokens = Del(file.session_tokens, tok)
        /\ \A other \in Sessions \ {tok} :
               /\ get_account_info(after, other).status = 200
               /\ get_transactions(after, other, now).status = 200

====
